---- MODULE Spec2Model ----
(***************************************************************************)
(* Model of mental_health_app.py: the response selector generate_response  *)
(* with its two optional text services, the Flask route /api/respond, and  *)
(* the Streamlit script (session state, listener thread, chat, mood log).  *)
(*                                                                         *)
(* A Python string is a sequence of atoms.  An atom is one character, or   *)
(* the name of a literal block of the source ("<sleep_guide>" stands for   *)
(* the text of lines 115-122); a block is never split and no keyword is    *)
(* looked up inside one, because the code only classifies the user's text. *)
(***************************************************************************)
EXTENDS Integers, Sequences, FiniteSets, TLC

VARIABLES
    GEMINI_MODEL,   \* line 55-81: "None" or "model", fixed once the module is loaded
    generator,      \* line 40-50: "None" or "pipeline"
    session_state,  \* st.session_state: a function from the keys present to values
    threads,        \* number of Flask listener threads started (line 228-229)
    clock,          \* the wall clock read by datetime.now(), in ticks
    pending,        \* the request a caller is about to make (NoRequest when none)
    call,           \* the latest invocation of generate_response
    http,           \* the latest reply of POST /api/respond
    ncalls,         \* invocations of generate_response so far
    logged,         \* history: slider values logged since the last reset
    memo            \* history: one earlier invocation kept for comparison

vars == <<GEMINI_MODEL, generator, session_state, threads, clock, pending,
          call, http, ncalls, logged, memo>>

----------------------------------------------------------------------------
(* Bounds of the model *)

MaxFrags == 2
MaxCalls == 2
MaxMoods == 2
MaxClock == 2

(* datetime.now() has sub-second resolution; "%S" keeps whole seconds *)
TicksPerSecond == 2

SliderMin == 1
SliderMax == 5
SliderDefault == 3

----------------------------------------------------------------------------
(* Python strings *)

UpperCase == <<"A","B","C","D","E","F","G","H","I","J","K","L","M",
               "N","O","P","Q","R","S","T","U","V","W","X","Y","Z">>
LowerCase == <<"a","b","c","d","e","f","g","h","i","j","k","l","m",
               "n","o","p","q","r","s","t","u","v","w","x","y","z">>

LowerChar(c) ==
    IF \E i \in DOMAIN UpperCase : UpperCase[i] = c
    THEN LowerCase[CHOOSE i \in DOMAIN UpperCase : UpperCase[i] = c]
    ELSE c

\* str.lower()
Lower(s) == [i \in 1..Len(s) |-> LowerChar(s[i])]

\* word in text
Contains(w, s) ==
    \E i \in 0..(Len(s) - Len(w)) : SubSeq(s, i + 1, i + Len(w)) = w

IsSpace(c) == c \in {" ", "\n", "\t"}

\* str.strip()
Strip(s) ==
    LET keep == {i \in 1..Len(s) : ~IsSpace(s[i])}
        first == CHOOSE i \in keep : \A j \in keep : i <= j
        last == CHOOSE i \in keep : \A j \in keep : j <= i
    IN  IF keep = {} THEN <<>> ELSE SubSeq(s, first, last)

\* s.replace(old, ""), old not empty
RECURSIVE Remove(_, _)
Remove(s, old) ==
    IF Len(s) < Len(old) THEN s
    ELSE IF SubSeq(s, 1, Len(old)) = old
         THEN Remove(SubSeq(s, Len(old) + 1, Len(s)), old)
         ELSE <<Head(s)>> \o Remove(Tail(s), old)

----------------------------------------------------------------------------
(* Literals of the source *)

stress_guide == <<"<stress_guide>">>
panic_guide == <<"<panic_guide>">>
depression_guide == <<"<depression_guide>">>
sleep_guide == <<"<sleep_guide>">>
resources == <<"<resources>">>

Sep == <<"\n", "\n">>
TipsHeader == <<"\n", "\n", "<Extra AI Tips:>", "\n">>
Apology == <<"<Sorry, I couldn't generate advice right now. Please try again later.>">>

PanicWords == {<<"p","a","n","i","c">>, <<"a","n","x","i","e","t","y">>,
               <<"a","t","t","a","c","k">>}
StressWords == {<<"s","t","r","e","s","s">>, <<"s","t","r","e","s","s","e","d">>,
                <<"p","r","e","s","s","u","r","e">>}
DepressionWords == {<<"d","e","p","r","e","s","s","e","d">>, <<"s","a","d">>,
                    <<"l","o","w">>, <<"h","o","p","e","l","e","s","s">>}
SleepWords == {<<"s","l","e","e","p">>, <<"i","n","s","o","m","n","i","a">>,
               <<"t","i","r","e","d">>}

----------------------------------------------------------------------------
(* Python and JSON values *)

PyStr(s) == [type |-> "str", str |-> s, num |-> 0]
PyNone == [type |-> "none", str |-> <<>>, num |-> 0]
PyBool(b) == [type |-> "bool", str |-> <<>>, num |-> IF b THEN 1 ELSE 0]
PyInt(n) == [type |-> "int", str |-> <<>>, num |-> n]
\* a list or a dict of num members
PyList(n) == [type |-> "list", str |-> <<>>, num |-> n]
PyDict(n) == [type |-> "dict", str |-> <<>>, num |-> n]

\* bool(v)
Truthy(v) ==
    CASE v.type = "str" -> v.str # <<>>
      [] v.type = "none" -> FALSE
      [] OTHER -> v.num # 0

\* f"{v}" for the values that can reach the prompt: strings and falsy values
Format(v) ==
    CASE v.type = "str" -> v.str
      [] v.type = "none" -> <<"N","o","n","e">>
      [] v.type = "bool" -> IF v.num = 1 THEN <<"T","r","u","e">>
                                         ELSE <<"F","a","l","s","e">>
      [] v.type = "int" -> IF v.num = 0 THEN <<"0">> ELSE <<"<int>">>
      [] v.type = "list" -> IF v.num = 0 THEN <<"[","]">> ELSE <<"<list>">>
      [] OTHER -> IF v.num = 0 THEN <<"{","}">> ELSE <<"<dict>">>

----------------------------------------------------------------------------
(* What the two external services can do when they are called *)

GenTexts == {<<>>, <<" ">>, <<" ", "o", "k", "\n">>}

NoAnswer == [kind |-> "absent", text |-> <<>>]

\* GEMINI_MODEL.generate_content(...): raises; returns None; returns an object
\* without .text; one whose .text raises; one whose .text is not a string;
\* one whose .text is a string
GeminiAnswers ==
    {[kind |-> k, text |-> <<>>] :
        k \in {"raise", "none", "no_text", "text_raises", "nonstr"}}
    \cup {[kind |-> "text", text |-> t] : t \in GenTexts}

\* generator(prompt, ...): raises; returns something that is no list; [];
\* [{}]; [{"generated_text": None}]; ["..."]; [{"generated_text": prompt + t}]
\* (the prompt echoed, as text-generation pipelines do); [{"generated_text": t}]
GeneratorAnswers ==
    {[kind |-> k, text |-> <<>>] :
        k \in {"raise", "nonlist", "empty_list", "no_key", "null_text", "nondict"}}
    \cup {[kind |-> "echo", text |-> t] : t \in GenTexts}
    \cup {[kind |-> "plain", text |-> t] : t \in GenTexts \ {<<>>}}

GeminiMay == IF GEMINI_MODEL = "None" THEN {NoAnswer} ELSE GeminiAnswers
GeneratorMay == IF generator = "None" THEN {NoAnswer} ELSE GeneratorAnswers

\* line 152 / 189: response and getattr(response, "text", None), evaluated
\* inside the try block; "raised" when the try block is left by an exception
\* (at the call, at .text, or at .strip() of a value that is no string)
GeminiText(gem) ==
    CASE gem.kind \in {"raise", "text_raises", "nonstr"} ->
            [raised |-> TRUE, usable |-> FALSE, text |-> <<>>]
      [] gem.kind = "text" /\ gem.text # <<>> ->
            [raised |-> FALSE, usable |-> TRUE, text |-> Strip(gem.text)]
      [] OTHER -> [raised |-> FALSE, usable |-> FALSE, text |-> <<>>]

----------------------------------------------------------------------------
(* expand_with_gemini, lines 137-157 *)

expand_with_gemini(base_text, gem) ==
    IF GEMINI_MODEL = "None"
    THEN [text |-> base_text, calls |-> <<>>]
    ELSE LET r == GeminiText(gem)
         IN  IF r.usable
             THEN [text |-> base_text \o TipsHeader \o r.text,
                   calls |-> <<"gemini">>]
             ELSE [text |-> base_text, calls |-> <<"gemini">>]

----------------------------------------------------------------------------
(* generate_response, lines 160-205 *)

AnyWord(words, text) == \E w \in words : Contains(w, text)

\* a faulty variant: the stress test moved ahead of the panic test
TopicStressFirst(text) ==
    IF AnyWord(StressWords, text) THEN "stress"
    ELSE IF AnyWord(PanicWords, text) THEN "panic"
    ELSE IF AnyWord(DepressionWords, text) THEN "depression"
    ELSE IF AnyWord(SleepWords, text) THEN "sleep"
    ELSE "general"

\* lines 170-177: the first test that succeeds decides the return statement
Topic(text) ==
    IF AnyWord(PanicWords, text) THEN "panic"
    ELSE IF AnyWord(StressWords, text) THEN "stress"
    ELSE IF AnyWord(DepressionWords, text) THEN "depression"
    ELSE IF AnyWord(SleepWords, text) THEN "sleep"
    ELSE "general"

\* a faulty variant: the crisis resources appended to every guide
BaseTextAlways(topic) ==
    CASE topic = "panic" -> panic_guide \o Sep \o resources
      [] topic = "stress" -> stress_guide \o Sep \o resources
      [] topic = "depression" -> depression_guide \o Sep \o resources
      [] topic = "sleep" -> sleep_guide \o Sep \o resources

\* lines 171, 173, 175, 177: the argument of expand_with_gemini
BaseText(topic) ==
    CASE topic = "panic" -> panic_guide \o Sep \o resources
      [] topic = "stress" -> stress_guide
      [] topic = "depression" -> depression_guide \o Sep \o resources
      [] topic = "sleep" -> sleep_guide

\* lines 179-183
Prompt(user_input) ==
    <<"<You are a supportive mental health assistant. User: '>">>
    \o Format(user_input)
    \o <<"<' Give 3-5 clear, practical, empathetic tips.>">>

\* lines 195-203: the value returned from inside the try block, if any
GeneratorText(hf, prompt) ==
    CASE hf.kind = "no_key" ->
            [returns |-> TRUE, text |-> Strip(Remove(<<>>, prompt))]
      [] hf.kind = "echo" ->
            [returns |-> TRUE, text |-> Strip(Remove(prompt \o hf.text, prompt))]
      [] hf.kind = "plain" ->
            [returns |-> TRUE, text |-> Strip(Remove(hf.text, prompt))]
      [] OTHER -> [returns |-> FALSE, text |-> <<>>]

Returned(text, branch, base, calls) ==
    [outcome |-> "return", result |-> text, branch |-> branch,
     base |-> base, calls |-> calls]

Raised == [outcome |-> "raise", result |-> <<>>, branch |-> "raise",
           base |-> <<>>, calls |-> <<>>]

\* a faulty variant: the generator is asked even when Gemini has answered, and
\* its text is preferred when it has any
AnswerGeneralBoth(user_input, gem, hf) ==
    LET prompt == Prompt(user_input)
        g == IF GEMINI_MODEL = "None"
             THEN [raised |-> FALSE, usable |-> FALSE, text |-> <<>>]
             ELSE GeminiText(gem)
        gcalls == IF GEMINI_MODEL = "None" THEN <<>> ELSE <<"gemini">>
        h == IF generator = "None" THEN [returns |-> FALSE, text |-> <<>>]
             ELSE GeneratorText(hf, prompt)
        hcalls == IF generator = "None" THEN <<>> ELSE <<"generator">>
    IN  IF h.returns
        THEN Returned(h.text, "generator", <<>>, gcalls \o hcalls)
        ELSE IF g.usable
             THEN Returned(g.text, "gemini", <<>>, gcalls \o hcalls)
             ELSE Returned(Apology, "apology", <<>>, gcalls \o hcalls)

\* lines 179-205: no guide; Gemini, then the generator, then the apology
AnswerGeneral(user_input, gem, hf) ==
    LET prompt == Prompt(user_input)
        g == IF GEMINI_MODEL = "None"
             THEN [raised |-> FALSE, usable |-> FALSE, text |-> <<>>]
             ELSE GeminiText(gem)
        gcalls == IF GEMINI_MODEL = "None" THEN <<>> ELSE <<"gemini">>
        h == IF generator = "None" THEN [returns |-> FALSE, text |-> <<>>]
             ELSE GeneratorText(hf, prompt)
        hcalls == IF generator = "None" THEN <<>> ELSE <<"generator">>
    IN  IF g.usable
        THEN Returned(g.text, "gemini", <<>>, gcalls)
        ELSE IF h.returns
             THEN Returned(h.text, "generator", <<>>, gcalls \o hcalls)
             ELSE Returned(Apology, "apology", <<>>, gcalls \o hcalls)

\* a faulty variant: the answer to a repeated question is cut short once the
\* session holds chat history
generate_response_history(user_input, gem, hf) ==
    LET v == IF Truthy(user_input) THEN user_input ELSE PyStr(<<>>)
    IN  IF v.type # "str" THEN Raised
        ELSE IF "messages" \in DOMAIN session_state
                /\ session_state["messages"] # <<>>
             THEN Returned(Apology, "apology", <<>>, <<>>)
             ELSE LET topic == Topic(Lower(v.str))
                  IN  IF topic = "general"
                      THEN AnswerGeneral(user_input, gem, hf)
                      ELSE LET e == expand_with_gemini(BaseText(topic), gem)
                           IN  Returned(e.text, topic, BaseText(topic), e.calls)

\* line 168: (user_input or "").lower() raises AttributeError when user_input
\* is truthy and no string
generate_response(user_input, gem, hf) ==
    LET v == IF Truthy(user_input) THEN user_input ELSE PyStr(<<>>)
    IN  IF v.type # "str" THEN Raised
        ELSE LET topic == Topic(Lower(v.str))
             IN  IF topic = "general"
                 THEN AnswerGeneral(user_input, gem, hf)
                 ELSE LET e == expand_with_gemini(BaseText(topic), gem)
                      IN  Returned(e.text, topic, BaseText(topic), e.calls)

----------------------------------------------------------------------------
(* The inputs the model draws *)

Fragments ==
    {<<"P","a","n","i","c">>,
     <<"s","t","r","e","s","s","e","d">>,
     <<"s","l","o","w">>,
     <<"s","l","e","e","p">>,
     <<"I"," ","c","a","n","'","t"," ">>,
     <<"h","i">>,
     <<"n","s","o","m","n","i","a">>}

RECURSIVE TextsUpTo(_)
TextsUpTo(n) ==
    IF n = 0 THEN {<<>>}
    ELSE LET shorter == TextsUpTo(n - 1)
         IN  shorter \cup {t \o f : t \in shorter, f \in Fragments}

Texts == TextsUpTo(MaxFrags)

NonStrings == {PyNone, PyBool(FALSE), PyBool(TRUE), PyInt(0), PyInt(5),
               PyList(0), PyList(1), PyDict(0), PyDict(1)}

Values == {PyStr(t) : t \in Texts} \cup NonStrings

\* A request body: absent, not JSON, a JSON value that is no object, or an
\* object with `members` members, one of them "text" when has_text
Body(kind, val, has_text, members) ==
    [kind |-> kind, val |-> val, has_text |-> has_text, members |-> members]

Bodies ==
    {Body("none", PyNone, FALSE, 0), Body("invalid", PyNone, FALSE, 0)}
    \cup {Body("value", v, FALSE, 0) :
            v \in (NonStrings \ {PyDict(0), PyDict(1)})
                  \cup {PyStr(<<>>), PyStr(<<"h","i">>)}}
    \cup {Body("object", PyNone, FALSE, n) : n \in {0, 1}}
    \cup {Body("object", v, TRUE, 1) :
            v \in NonStrings \cup {PyStr(t) : t \in TextsUpTo(1)}}

\* what the UI session and its HTTP clients send in the session specification
UiTexts == {<<"I"," ","c","a","n","'","t"," ">> \o <<"s","l","e","e","p">>,
            <<"h","i">>}
SessionBodies == {Body("object", PyStr(<<"h","i">>), TRUE, 1)}
SessionGemini == {[kind |-> "text", text |-> <<" ", "o", "k", "\n">>]}
SessionGenerator == {[kind |-> "echo", text |-> <<" ", "o", "k", "\n">>]}
\* the ends of the slider and its default (line 305)
SliderValues == {SliderMin, SliderDefault, SliderMax}

----------------------------------------------------------------------------
(* Records of what happened *)

NoRequest == [op |-> "none", input |-> PyNone, body |-> Body("none", PyNone, FALSE, 0)]
NoCall == [n |-> 0, input |-> PyNone, gem |-> NoAnswer, hf |-> NoAnswer,
           outcome |-> "none", result |-> <<>>, branch |-> "none",
           base |-> <<>>, calls |-> <<>>]
NoReply == [status |-> 0, json |-> FALSE, response |-> <<>>]
NoMemo == [n |-> 0, input |-> PyNone, outcome |-> "none", result |-> <<>>]

CallRecord(n, input, gem, hf, r) ==
    [n |-> n, input |-> input, gem |-> gem, hf |-> hf,
     outcome |-> r.outcome, result |-> r.result, branch |-> r.branch,
     base |-> r.base, calls |-> r.calls]

\* history: an invocation made with both services absent may be kept, once
Remember(c) ==
    IF memo = NoMemo /\ GEMINI_MODEL = "None" /\ generator = "None"
    THEN {memo, [n |-> c.n, input |-> c.input, outcome |-> c.outcome,
                 result |-> c.result]}
    ELSE {memo}

----------------------------------------------------------------------------
(* The Flask route, lines 212-217 *)

\* line 214: request.get_json(silent=True) or {}
IsDict(body) ==
    \/ body.kind \in {"none", "invalid", "object"}
    \/ body.kind = "value" /\ ~Truthy(body.val)

\* line 215: data.get("text", "")
UserText(body) ==
    IF body.kind = "object" /\ body.has_text THEN body.val ELSE PyStr(<<>>)

\* an exception that leaves the view function is answered 500 by Flask
respond(body, gem, hf) ==
    IF ~IsDict(body)
    THEN /\ http' = [status |-> 500, json |-> FALSE, response |-> <<>>]
         /\ UNCHANGED <<call, ncalls, memo>>
    ELSE LET r == generate_response(UserText(body), gem, hf)
             c == CallRecord(ncalls + 1, UserText(body), gem, hf, r)
         IN  /\ call' = c
             /\ ncalls' = ncalls + 1
             /\ memo' \in Remember(c)
             /\ http' = IF r.outcome = "raise"
                        THEN [status |-> 500, json |-> FALSE, response |-> <<>>]
                        ELSE [status |-> 200, json |-> TRUE, response |-> r.result]

----------------------------------------------------------------------------
(* The Streamlit script, lines 226-320: one run per user interaction *)

Put(st, k, v) == (k :> v) @@ st

\* a faulty variant: the listener is started on every run
NeedsFlaskAlways(st) == TRUE

\* line 227
NeedsFlask(st) == "flask_started" \notin DOMAIN st

\* lines 227-231 and 241-245
Prologue(st) ==
    LET s1 == IF NeedsFlask(st) THEN Put(st, "flask_started", TRUE) ELSE st
        s2 == IF "messages" \notin DOMAIN s1 THEN Put(s1, "messages", <<>>) ELSE s1
        s3 == IF "moods" \notin DOMAIN s2 THEN Put(s2, "moods", <<>>) ELSE s2
    IN  s3

\* lines 228-229
StartFlask ==
    threads' = IF NeedsFlask(session_state) THEN threads + 1 ELSE threads

\* a run with no button pressed (the first run of a session is one)
Rerun ==
    /\ session_state' = Prologue(session_state)
    /\ StartFlask
    /\ UNCHANGED <<GEMINI_MODEL, generator, clock, pending, call, http,
                   ncalls, logged, memo>>

\* lines 250-253
ResetHistory ==
    /\ session_state' =
          Put(Put(Prologue(session_state), "messages", <<>>), "moods", <<>>)
    /\ StartFlask
    /\ logged' = <<>>
    /\ UNCHANGED <<GEMINI_MODEL, generator, clock, pending, call, http,
                   ncalls, memo>>

\* lines 262-267; line 267 assigns to the key of a widget that exists, which
\* Streamlit refuses: the run ends there, after both messages are stored
GetAdvice(user_input, gem, hf) ==
    /\ user_input # <<>>
    /\ ncalls < MaxCalls
    /\ LET st == Prologue(session_state)
           r == generate_response(PyStr(user_input), gem, hf)
           c == CallRecord(ncalls + 1, PyStr(user_input), gem, hf, r)
       IN  /\ r.outcome = "return"
           /\ session_state' =
                 Put(st, "messages",
                     st["messages"]
                     \o <<[role |-> "user", content |-> user_input],
                          [role |-> "assistant", content |-> r.result]>>)
           /\ call' = c
           /\ ncalls' = ncalls + 1
           /\ memo' \in Remember(c)
    /\ StartFlask
    /\ UNCHANGED <<GEMINI_MODEL, generator, clock, pending, http, logged>>

\* line 309: datetime.now().strftime("%Y-%m-%d %H:%M:%S")
Strftime(t) == t \div TicksPerSecond

\* a faulty variant: the new entry is put in front
AddMoodFirst(moods, entry) == <<entry>> \o moods

\* line 308: list.append
AddMood(moods, entry) == Append(moods, entry)

\* lines 305-312
LogMood(mood_slider) ==
    /\ LET st == Prologue(session_state)
       IN  /\ Len(st["moods"]) < MaxMoods
           /\ session_state' =
                 Put(st, "moods",
                     AddMood(st["moods"],
                             [date |-> Strftime(clock), mood |-> mood_slider]))
    /\ StartFlask
    /\ logged' = Append(logged, mood_slider)
    /\ UNCHANGED <<GEMINI_MODEL, generator, clock, pending, call, http,
                   ncalls, memo>>

\* time passes
Tick ==
    /\ clock < MaxClock
    /\ clock' = clock + 1
    /\ UNCHANGED <<GEMINI_MODEL, generator, session_state, threads, pending,
                   call, http, ncalls, logged, memo>>

\* a client posts to the listener thread
Post(body, gem, hf) ==
    /\ threads >= 1
    /\ ncalls < MaxCalls
    /\ respond(body, gem, hf)
    /\ UNCHANGED <<GEMINI_MODEL, generator, session_state, threads, clock,
                   pending, logged>>

----------------------------------------------------------------------------
(* The session: the script's runs, the clock and the listener's requests *)

Init ==
    /\ GEMINI_MODEL \in {"None", "model"}
    /\ generator \in {"None", "pipeline"}
    /\ session_state = [k \in {} |-> TRUE]
    /\ threads = 0
    /\ clock = 0
    /\ pending = NoRequest
    /\ call = NoCall
    /\ http = NoReply
    /\ ncalls = 0
    /\ logged = <<>>
    /\ memo = NoMemo

Next ==
    \/ Rerun
    \/ ResetHistory
    \/ \E t \in UiTexts, gem \in GeminiMay \cap (SessionGemini \cup {NoAnswer}),
          hf \in GeneratorMay \cap (SessionGenerator \cup {NoAnswer}) :
          GetAdvice(t, gem, hf)
    \/ \E m \in SliderValues : LogMood(m)
    \/ Tick
    \/ \E b \in SessionBodies, gem \in GeminiMay \cap (SessionGemini \cup {NoAnswer}),
          hf \in GeneratorMay \cap (SessionGenerator \cup {NoAnswer}) :
          Post(b, gem, hf)

Spec == Init /\ [][Next]_vars

----------------------------------------------------------------------------
(* One request: generate_response and the route applied to drawn inputs *)

Requests ==
    {[op |-> "call", input |-> v, body |-> Body("none", PyNone, FALSE, 0)] :
        v \in Values}
    \cup {[op |-> "post", input |-> PyNone, body |-> b] : b \in Bodies}

\* the state after the first run of the script, a request about to be made
InitRespond ==
    /\ GEMINI_MODEL \in {"None", "model"}
    /\ generator \in {"None", "pipeline"}
    /\ session_state = Prologue([k \in {} |-> TRUE])
    /\ threads = 1
    /\ clock = 0
    /\ pending \in Requests
    /\ call = NoCall
    /\ http = NoReply
    /\ ncalls = 0
    /\ logged = <<>>
    /\ memo = NoMemo

\* generate_response(pending.input)
Call(gem, hf) ==
    /\ pending.op = "call"
    /\ LET r == generate_response(pending.input, gem, hf)
       IN  call' = CallRecord(ncalls + 1, pending.input, gem, hf, r)
    /\ ncalls' = ncalls + 1
    /\ pending' = NoRequest
    /\ UNCHANGED <<GEMINI_MODEL, generator, session_state, threads, clock,
                   http, logged, memo>>

\* POST /api/respond with pending.body
PostPending(gem, hf) ==
    /\ pending.op = "post"
    /\ respond(pending.body, gem, hf)
    /\ pending' = NoRequest
    /\ UNCHANGED <<GEMINI_MODEL, generator, session_state, threads, clock,
                   logged>>

NextRespond ==
    \/ \E gem \in GeminiMay, hf \in GeneratorMay : Call(gem, hf)
    \/ \E gem \in GeminiMay, hf \in GeneratorMay : PostPending(gem, hf)

SpecRespond == InitRespond /\ [][NextRespond]_vars

----------------------------------------------------------------------------
(* The claims' vocabulary, written from the specification's words *)

Priority == <<"panic", "stress", "depression", "sleep">>

KeywordsOf(topic) ==
    CASE topic = "panic" ->
            {<<"p","a","n","i","c">>, <<"a","n","x","i","e","t","y">>,
             <<"a","t","t","a","c","k">>}
      [] topic = "stress" ->
            {<<"s","t","r","e","s","s">>, <<"s","t","r","e","s","s","e","d">>,
             <<"p","r","e","s","s","u","r","e">>}
      [] topic = "depression" ->
            {<<"d","e","p","r","e","s","s","e","d">>, <<"s","a","d">>,
             <<"l","o","w">>, <<"h","o","p","e","l","e","s","s">>}
      [] topic = "sleep" ->
            {<<"s","l","e","e","p">>, <<"i","n","s","o","m","n","i","a">>,
             <<"t","i","r","e","d">>}

Occurs(topic, text) ==
    LET lowered == Lower(text)
    IN  \E w \in KeywordsOf(topic) : Contains(w, lowered)

\* the first topic of the priority order one of whose keywords occurs
ExpectedTopic(text) ==
    LET hit == {i \in DOMAIN Priority : Occurs(Priority[i], text)}
    IN  IF hit = {} THEN "general"
        ELSE Priority[CHOOSE i \in hit : \A j \in hit : i <= j]

GuideOf(topic) ==
    CASE topic = "panic" -> <<"<panic_guide>">>
      [] topic = "stress" -> <<"<stress_guide>">>
      [] topic = "depression" -> <<"<depression_guide>">>
      [] topic = "sleep" -> <<"<sleep_guide>">>

Crisis == <<"<resources>">>

\* the guide of a topic as the specification composes it
ExpectedGuide(topic) ==
    IF topic \in {"panic", "depression"}
    THEN GuideOf(topic) \o <<"\n", "\n">> \o Crisis
    ELSE GuideOf(topic)

HasPrefix(s, p) == Len(p) <= Len(s) /\ SubSeq(s, 1, Len(p)) = p

\* the text generate_response classified, for an invocation that returned
TextOf(c) == IF c.input.type = "str" THEN c.input.str ELSE <<>>

Answered == call.outcome = "return"

\* the generative service contributed nothing: not configured, raised, or an
\* empty or malformed result (missing, empty or whitespace-only text)
GeminiNothing(gem) == ~(gem.kind = "text" /\ Strip(gem.text) # <<>>)

\* the same, reading "empty" as the empty string only
GeminiEmpty(gem) == ~(gem.kind = "text" /\ gem.text # <<>>)

\* the local generator yielded no text: not configured, raised, no list, an
\* empty list, an element that is no record or has no usable generated_text,
\* or nothing generated
GeneratorEmpty(hf) == ~(hf.kind \in {"echo", "plain"} /\ hf.text # <<>>)

Count(seq, x) == Cardinality({i \in DOMAIN seq : seq[i] = x})

----------------------------------------------------------------------------
(* C1: generate_response never fails: whatever value it receives and       *)
(* whatever the two services do, it returns a string and raises nothing.   *)
C1_NeverRaises == call.outcome # "raise"

(* C2: every POST to /api/respond is answered 200 with a JSON object       *)
(* {"response": <string>}, whatever the body and the services.             *)
C2_Always200 == http # NoReply => http.status = 200 /\ http.json

(* C3: when no keyword occurs in the input and neither service yields      *)
(* usable text, generate_response returns exactly the apology, and never   *)
(* the empty string.                                                       *)
C3_ApologyWhenNothing ==
    (/\ Answered
     /\ ExpectedTopic(TextOf(call)) = "general"
     /\ GeminiEmpty(call.gem)
     /\ GeneratorEmpty(call.hf))
    => call.result = Apology /\ call.result # <<>>

(* C4: the topic answered is the first of panic, stress, depression, sleep *)
(* with a keyword occurring in the lower-cased input, and general when     *)
(* none occurs; panic wins over stress.                                    *)
C4_FirstMatchWins ==
    Answered =>
        LET topic == ExpectedTopic(TextOf(call))
        IN  IF topic = "general"
            THEN call.branch \in {"gemini", "generator", "apology"}
                 /\ call.base = <<>>
            ELSE call.branch = topic
                 /\ HasPrefix(call.result, GuideOf(topic))

C4_Witness ==
    /\ Answered
    /\ Occurs("panic", TextOf(call))
    /\ Occurs("stress", TextOf(call))
    /\ HasPrefix(call.result, <<"<panic_guide>">>)

(* C5: for an input with a guide, when the generative service contributes  *)
(* nothing (not configured, raises, empty or malformed result, whitespace- *)
(* only text included), the result is exactly the topic's guide.           *)
C5_ExpansionNoOp ==
    (/\ Answered
     /\ ExpectedTopic(TextOf(call)) # "general"
     /\ GeminiNothing(call.gem))
    => call.result = ExpectedGuide(ExpectedTopic(TextOf(call)))

(* C6: the crisis resources follow the guide if and only if the topic is   *)
(* panic or depression, whatever the generative service does: the text     *)
(* handed to the expansion is the guide alone for stress and sleep, the    *)
(* guide followed by the resources for panic and depression, and the       *)
(* result starts with it (and is it when nothing is expanded).             *)
C6_CrisisOnlyPanicDepression ==
    (Answered /\ ExpectedTopic(TextOf(call)) # "general") =>
        LET topic == ExpectedTopic(TextOf(call))
        IN  /\ call.base = ExpectedGuide(topic)
            /\ Contains(Crisis, call.base) <=> topic \in {"panic", "depression"}
            /\ HasPrefix(call.result, call.base)
            /\ GeminiEmpty(call.gem) => call.result = call.base

C6_Witness ==
    /\ Answered
    /\ ExpectedTopic(TextOf(call)) = "depression"
    /\ call.gem.kind = "text" /\ call.gem.text # <<>>
    /\ Contains(Crisis, call.result)
    /\ call.result # call.base

C9_FallbackOrder ==
    Answered =>
        /\ Count(call.calls, "gemini") <= 1
        /\ Count(call.calls, "generator") <= 1
        /\ Count(call.calls, "generator") = 1 =>
              /\ ExpectedTopic(TextOf(call)) = "general"
              /\ GeminiEmpty(call.gem)
              /\ call.calls[Len(call.calls)] = "generator"
              /\ GEMINI_MODEL # "None" => call.calls = <<"gemini", "generator">>

C9_Witness ==
    /\ Answered
    /\ call.calls = <<"gemini", "generator">>
    /\ call.gem.kind = "raise"
    /\ call.branch = "generator"
    /\ call.result # <<>>

(* C10: the listener thread is started once per session: however many     *)
(* runs of the script there are, exactly one thread has been started once  *)
(* the script has run, and 'Reset History' leaves flask_started set.       *)
C10_OneListener ==
    /\ threads <= 1
    /\ DOMAIN session_state # {} =>
          /\ threads = 1
          /\ "flask_started" \in DOMAIN session_state
          /\ session_state["flask_started"] = TRUE

C10_Witness ==
    /\ threads = 1
    /\ call # NoCall
    /\ http = NoReply
    /\ session_state["messages"] = <<>>
    /\ session_state["flask_started"] = TRUE

====
